---------------------------- MODULE Spec2Model ----------------------------
(***************************************************************************)
(* Bid price scoring (check321/bid_price_calc).                            *)
(*                                                                         *)
(* FractionCalculator.calc validates a list of bid prices, computes the    *)
(* batch average, scores every price against a benchmark price built from  *)
(* a randomly chosen configuration, sorts the items by score and appends   *)
(* the record to the JSON result log.                                      *)
(*                                                                         *)
(* Number representation.  The code computes with decimal.Decimal and      *)
(* quantizes every result with ROUND_HALF_UP; the model keeps each decimal *)
(* as an integer count of its unit:                                        *)
(*   price, standard_price          whole currency units                   *)
(*   avg_price, benchmark_price     1/100   (two fractional digits)        *)
(*   score                          1/100   (two fractional digits)        *)
(*   bid_float_rate, final_float_a,                                        *)
(*   deviation_rate                 1/10000 (four fractional digits)       *)
(*   config float_a                 1/100000 (so that its quantize to four *)
(*                                  digits really rounds)                  *)
(*   config weight_b                1/10                                   *)
(*   config float_c3                1/100                                  *)
(* Prices are whole numbers, so that sum(prices) (line 101, a float sum)   *)
(* is exact; with operands of this size the 28-digit precision of the      *)
(* Decimal context never changes what a quantize returns.  A zero divisor  *)
(* raises.  A number of a record is a Python int or float, and a float     *)
(* zero may be -0.0; the kind is kept beside the value, for json.dump      *)
(* writes 0, 0.0 and -0.0 differently.                                     *)
(*                                                                         *)
(* The specifications share the definitions:                               *)
(*   Spec      calc and reset called one after the other on one log        *)
(*   SpecCalc  one calc call on every input of the domain                  *)
(*   SpecRange one calc call, standard price and configurations in their   *)
(*             normal ranges                                               *)
(*   SpecUnit  _calculate_final_float_a as a pure function                 *)
(*   SpecScore _calculate_score as a pure function                         *)
(*   SpecConc  two threads inside calc, and a reset_all beside them: the   *)
(*             read() calls of the load, the append, the opening for       *)
(*             writing and the write are separate steps                    *)
(*   SpecUI    the web front end (gradio_server.py): the page load and the *)
(*             handlers of the add, remove, change, calculate and reset    *)
(*             events, one at a time or two side by side                   *)
(*   SpecMethods  add_price_input and remove_price_input, which no event   *)
(*             is bound to                                                 *)
(***************************************************************************)
EXTENDS Integers, Sequences, FiniteSets, TLC

VARIABLES
    standard_price,  \* self.standard_price
    configs,         \* self.configs
    file,            \* the content of result.json (a JSON document)
    prices,          \* the argument of the last calc call (SpecCalc: of the call to come)
    picked,          \* the values random.choice returned during the last call
    ret,             \* the record the last calc returned (NoRecord if it raised)
    err,             \* the exception the last calc raised (NoError if it returned)
    pc,              \* the last operation: "ready" (none yet), "calc" or "reset"
    unit_fn,         \* SpecUnit: the calculator under test
    unit_arg,        \* SpecUnit: its arguments
    unit_out,        \* SpecUnit: <<>> before it ran, <<result>> after
    t_pc,            \* SpecConc: where each thread is inside calc
    t_record,        \* SpecConc: calc's local new_record, per thread
    t_result,        \* SpecConc: calc's local result (the loaded log), per thread
    t_ret,           \* SpecConc: the record each thread's calc returned
    t_err,           \* SpecConc: the exception each thread's calc raised
    t_read,          \* SpecConc: each thread's read of result.json in progress
    r_pc,            \* SpecConc: where a reset_all running beside the threads is
    lists,           \* SpecUI: the list objects by name, each the values it holds
    prices_state,    \* SpecUI: the name of the list the session holds for prices_state
    num_inputs,      \* SpecUI: the value the session holds for num_inputs_state
    frames           \* SpecUI: per thread, the handler it runs and the handler's locals

seq_vars  == <<standard_price, configs, file, prices, picked, ret, err, pc>>
unit_vars == <<unit_fn, unit_arg, unit_out>>
conc_vars == <<t_pc, t_record, t_result, t_ret, t_err, t_read, r_pc>>
ui_vars   == <<lists, prices_state, num_inputs, frames>>
vars == <<seq_vars, unit_vars, conc_vars, ui_vars>>

-----------------------------------------------------------------------------
(* Bounds and input domains *)

\* longest price list given to calc in SpecCalc
MaxLen == 3

\* Spec stops calling calc once the log holds this many records
MaxLog == 3

\* readings of datetime.now(), in seconds
Timestamps == {1, 2}

\* A price is a Python object: isnum says whether it is an int or a float,
\* val is its value in whole units, kind is how Python holds it ("int",
\* "float" or, for the float zero with its sign bit set, "-0.0").

\* a price that fails isinstance(price, (int, float)), e.g. a string
NonNumeric == [isnum |-> FALSE, val |-> 0, kind |-> "str"]

\* the int v, as __main__ passes its prices (line 248)
Num(v) == [isnum |-> TRUE, val |-> v, kind |-> "int"]

\* the float of the whole value v >= 0, as cmd.py (float(arg)) and the
\* number boxes of the front end pass their prices
Float(v) == [isnum |-> TRUE, val |-> v, kind |-> "float"]

\* the float -0.0, which float("-0") gives; -0.0 < 0 is False
MinusZeroPrice == [isnum |-> TRUE, val |-> 0, kind |-> "-0.0"]

\* None, the value of an input nothing was typed into
EmptyInput == [isnum |-> FALSE, val |-> 0, kind |-> "None"]

\* against the default standard price 5385: 5200 is the worked example,
\* 5816 has bid_float_rate exactly 0.0800, 6194 has 0.1502
PriceValues == {NonNumeric, Num(-1), Num(0), Num(5200), Num(5816), Num(6194)}

RECURSIVE SeqsUpTo(_, _)
SeqsUpTo(S, n) ==
    IF n = 0 THEN {<<>>}
    ELSE LET shorter == SeqsUpTo(S, n - 1)
         IN  shorter \cup {Append(s, x) : s \in {t \in shorter : Len(t) = n - 1}, x \in S}

PriceLists == SeqsUpTo(PriceValues, MaxLen)

\* config A is the configuration of the specification's worked example;
\* B makes every benchmark price zero ((1 + float_c3) = 0 and (1 - weight_b) = 0);
\* C has weight_b and float_c3 outside their conventional ranges and makes
\* every benchmark price negative; float_a of B and C has five fractional
\* digits; Z is A with the float_a -0.00004, which quantizes to -0.0000 and
\* gives the float -0.0.  A float_a that is zero is 0 or 0.0, never -0.0.
ConfigA == [name |-> "A", float_a |-> 5000,  weight_b |-> 6,  float_c3 |-> 2]
ConfigB == [name |-> "B", float_a |-> 12345, weight_b |-> 10, float_c3 |-> -100]
ConfigC == [name |-> "C", float_a |-> -5,    weight_b |-> 15, float_c3 |-> -200]
ConfigZ == [name |-> "Z", float_a |-> -4,    weight_b |-> 6,  float_c3 |-> 2]

ConfigLists == {<<>>, <<ConfigA>>, <<ConfigA, ConfigB, ConfigC>>, <<ConfigZ>>}

\* _load_standard_price: the default when the config file gives none
DefaultStandardPrice == 5385

\* 0 is a standard_price a config file can hold
StandardPrices == {DefaultStandardPrice, 0}

\* the price lists Spec passes to calc: an empty one, an invalid one, the
\* worked example, one of floats that starts with -0.0
LogPriceLists ==
    {<<>>, <<Num(5200), Num(-1)>>, <<Num(5200)>>, <<MinusZeroPrice, Float(6194)>>}

\* the configurations of Spec's calculator: none, A with B (a call that
\* draws B fails on the zero benchmark price), C, Z
LogConfigLists == {<<>>, <<ConfigA, ConfigB>>, <<ConfigC>>, <<ConfigZ>>}

\* SpecUnit: bid_float_rate values around the tier boundaries 0.08 and 0.15
RateValues == {-10000, -344, 0, 799, 800, 801, 1499, 1500, 1501, 1502, 3000}

\* SpecUnit: float_a values, some with a fifth fractional digit
FloatAValues == {-5000, -15, -5, 0, 4, 5, 2500, 5000, 12345, 99995}

\* SpecConc: the threads that call calc, the price lists they pass and the
\* configurations of the calculator
Threads == {1, 2}

ConcPriceLists == {<<Num(5200)>>, <<Float(0), Float(6194)>>, <<Num(-1)>>}

ConcConfigLists == {<<ConfigA>>, <<ConfigZ>>}

\* SpecRange: configurations whose parameters are in their normal ranges.
\* W has weight_b = 1, F has weight_b = 0 and a float_a that quantizes to
\* 1.0000, S and T make the benchmark price of an all-zero batch 0.006 and
\* 0.004 against a standard price of 1
ConfigW == [name |-> "W", float_a |-> 5000,  weight_b |-> 10, float_c3 |-> 2]
ConfigF == [name |-> "F", float_a |-> 99995, weight_b |-> 0,  float_c3 |-> 0]
ConfigS == [name |-> "S", float_a |-> 94000, weight_b |-> 9,  float_c3 |-> 0]
ConfigT == [name |-> "T", float_a |-> 96000, weight_b |-> 9,  float_c3 |-> 0]

RangeConfigLists ==
    {<<ConfigA>>, <<ConfigW>>, <<ConfigF>>, <<ConfigS>>, <<ConfigT>>, <<ConfigA, ConfigW>>}

\* SpecRange: positive standard prices
RangeStandardPrices == {1, DefaultStandardPrice}

\* SpecRange: valid price lists
RangePriceLists == SeqsUpTo({Num(0), Num(1), Num(5200)}, MaxLen) \ {<<>>}

\* SpecScore: the <<price, benchmark_price>> pairs given to _calculate_score
\* (whole units, 1/100): prices at, above and below the benchmark prices
\* 100.00 and 5228.70, a negative and a zero benchmark price, one of 0.03
ScorePrices == {0, 50, 90, 99, 100, 101, 110, 149, 150, 151, 300}

ScoreBenchmarks == {-10000, 0, 3, 3333, 10000, 10001}

ScoreArgs ==
    (ScorePrices \X ScoreBenchmarks)
        \cup ({5200, 5229, 5300, 7000} \X {518447, 522870, 522900})

\* handle_add, line 234: no input is added beyond this many
MaxInputs == 50

\* create_ui, line 167: the input rows (number box and remove button) built
\* in advance; the remove buttons and change events carry the indices
\* 0 .. NumRows - 1
NumRows == 50

\* SpecUI: the values a number box reports on a change
UIValues == {EmptyInput, Float(5200)}

\* SpecUI: numbers are typed into the first MaxTyped number boxes only; a
\* change event of another box carries None
MaxTyped == 1

\* SpecUI: the page is loaded while the list of the State component holds
\* this many entries at most
MaxShared == 1

\* SpecUI: the times the calculate button is pressed at
UITimestamps == {1}

\* SpecUI: handlers overlap while num_inputs_state and the length of every
\* list are at most this
MaxOverlap == 2

\* SpecUI: a handler that starts while none runs is the first of a chain,
\* and one that starts beside the n-th of a chain is its (n + 1)-th; no
\* handler starts beside the MaxBurst-th
MaxBurst == 2

\* SpecUI: the calculate button is pressed while the log holds fewer records
\* than this
MaxCalcs == 1

-----------------------------------------------------------------------------
(* Decimal arithmetic *)

Abs(x) == IF x < 0 THEN -x ELSE x

Sign(x) == IF x < 0 THEN -1 ELSE IF x > 0 THEN 1 ELSE 0

\* the element of a one-element set; The({F(x) : x \in {e}}) is F(e) with e
\* evaluated once
The(S) == CHOOSE x \in S : TRUE

\* a / b for a >= 0, b > 0, carried to n fractional digits by long division:
\* LongDivRem is the remainder left after n digits, LongDivQuot is
\* floor(a * 10^n / b)
RECURSIVE LongDivRem(_, _, _)
LongDivRem(a, b, n) ==
    IF n = 0 THEN a % b ELSE (LongDivRem(a, b, n - 1) * 10) % b

RECURSIVE LongDivQuot(_, _, _)
LongDivQuot(a, b, n) ==
    IF n = 0 THEN a \div b
    ELSE LongDivQuot(a, b, n - 1) * 10 + (LongDivRem(a, b, n - 1) * 10) \div b

\* mutant of RoundHalfUp: ROUND_DOWN, the digits beyond the n-th are dropped
RoundDown(a, b, n) ==
    Sign(a) * Sign(b) * LongDivQuot(Abs(a), Abs(b), n)

\* (Decimal(a) / Decimal(b)).quantize(10^-n, rounding=ROUND_HALF_UP), b # 0,
\* in units of 10^-n: a tie goes away from zero
RoundHalfUp(a, b, n) ==
    Sign(a) * Sign(b) *
        (LongDivQuot(Abs(a), Abs(b), n)
            + IF 2 * LongDivRem(Abs(a), Abs(b), n) >= Abs(b) THEN 1 ELSE 0)

\* the sign of a result that is zero: a Decimal keeps it and float(result)
\* is -0.0 for a negative one.  A quotient a / b that rounds to zero has the
\* sign of a / b; the zero a is a difference or a sum that came out zero,
\* which is positive, so 0 / b is negative for b < 0 only
MinusZero(a, b, n) ==
    /\ RoundHalfUp(a, b, n) = 0
    /\ IF a = 0 THEN b < 0 ELSE (a < 0) # (b < 0)

\* how Python holds the float result
FloatKind(minus_zero) == IF minus_zero THEN "-0.0" ELSE "float"

\* the exception Decimal division raises for a zero divisor: x / 0 signals
\* DivisionByZero, 0 / 0 signals InvalidOperation (DivisionUndefined)
DivisionError(a) ==
    IF a = 0 THEN [cls |-> "InvalidOperation", msg |-> "DivisionUndefined"]
    ELSE [cls |-> "DivisionByZero", msg |-> "DivisionByZero"]

-----------------------------------------------------------------------------
(* Errors and results *)

NoError == [cls |-> "None", msg |-> ""]

\* calc, lines 181-182: raise ValueError(<price list must not be empty>)
EmptyListError == [cls |-> "ValueError", msg |-> "price list must not be empty"]

\* calc, lines 184-185: raise ValueError(<price list contains an invalid price value>)
InvalidPriceError == [cls |-> "ValueError", msg |-> "price list contains an invalid price"]

\* calc, lines 195-196: raise ValueError(<cannot get a calculation config>)
NoConfigError == [cls |-> "ValueError", msg |-> "cannot get a calculation config"]

\* the value of ret when the last call returned no record
NoRecord == [items |-> <<>>, timestamp |-> 0, avg_price |-> 0]

-----------------------------------------------------------------------------
(* The calculators *)

\* mutant of FinalFloatA: the tier boundaries compared with < instead of <=
FinalFloatAStrict(rate, float_a) ==
    IF rate < 800 THEN float_a
    ELSE IF rate < 1500 THEN float_a - 2500
    ELSE float_a - 5000

\* lines 79-84: the tier on bid_float_rate; Decimal('0.025') and
\* Decimal('0.05') in units of 1/100000
FinalFloatA(rate, float_a) ==
    IF rate <= 800 THEN float_a
    ELSE IF rate <= 1500 THEN float_a - 2500
    ELSE float_a - 5000

\* _calculate_final_float_a: the tier on bid_float_rate, then quantize to
\* four digits
_calculate_final_float_a(bid_float_rate, float_a) ==
    RoundHalfUp(FinalFloatA(bid_float_rate, float_a), 10, 0)

\* lines 87-88: float(result) of a result that quantizes to zero is -0.0
\* when the result was negative
FinalFloatAKind(bid_float_rate, float_a) ==
    FloatKind(MinusZero(FinalFloatA(bid_float_rate, float_a), 10, 0))

\* _calculate_float_rate, for standard # 0
_calculate_float_rate(price, standard) ==
    RoundHalfUp(price - standard, standard, 4)

\* lines 94-95: float(result) of a quotient that quantizes to zero
FloatRateKind(price, standard) ==
    FloatKind(MinusZero(price - standard, standard, 4))

RECURSIVE Sum(_)
Sum(s) == IF s = <<>> THEN 0 ELSE Head(s) + Sum(Tail(s))

\* _calculate_average: price_values are whole units, the result is in 1/100
_calculate_average(price_values) ==
    IF price_values = <<>> THEN 0
    ELSE RoundHalfUp(Sum(price_values), Len(price_values), 2)

\* mutant of _calculate_benchmark_price: the sum is cut to two digits, not
\* rounded
BenchmarkPriceTruncated(avg_price, config, final_float_a, standard) ==
    LET part1 == avg_price * (100 + config.float_c3) * config.weight_b
        part2 == standard * (10000 - final_float_a) * (10 - config.weight_b)
    IN  RoundDown(part1 + part2, 1000, 0)

\* _calculate_benchmark_price:
\*   part1 = avg * (1 + float_c3) * weight_b         (units 1/100 * 1/100 * 1/10)
\*   part2 = standard * (1 - final_a) * (1 - weight_b)   (units 1 * 1/10000 * 1/10)
\* both in units of 1/100000, the sum quantized to 1/100
_calculate_benchmark_price(avg_price, config, final_float_a, standard) ==
    LET part1 == avg_price * (100 + config.float_c3) * config.weight_b
        part2 == standard * (10000 - final_float_a) * (10 - config.weight_b)
    IN  RoundHalfUp(part1 + part2, 1000, 0)

\* line 158: the deviation rate, quantized to four digits; benchmark_price # 0
DeviationRate(price, benchmark_price) ==
    RoundHalfUp(price * 100 - benchmark_price, benchmark_price, 4)

\* mutant of FinalScore: a bid above the benchmark loses what a bid below it
\* loses
FinalScoreSymmetric(deviation_rate) ==
    10000 - Abs(deviation_rate)

\* lines 165-171: base_score - deduction in 1/100; deviation * 200 is
\* 2/100 per unit of deviation, abs(deviation) * 100 is 1/100 per unit
FinalScore(deviation_rate) ==
    IF deviation_rate > 0 THEN 10000 - deviation_rate * 2
    ELSE 10000 - Abs(deviation_rate)

\* mutant of FloorAtZero: the floor at zero is missing
NoFloor(final_score) == final_score

\* line 174: max(float(final_score), 0)
FloorAtZero(final_score) == IF final_score > 0 THEN final_score ELSE 0

\* _calculate_score, for benchmark_price # 0
_calculate_score(price, benchmark_price) ==
    FloorAtZero(FinalScore(DeviationRate(price, benchmark_price)))

\* line 174: max(float(final_score), 0) is the int 0 when final_score is
\* negative and the float otherwise (0.0 for a final_score of zero, which is
\* never negative zero: base_score - deduction has two fractional digits at
\* most)
ScoreKind(price, benchmark_price) ==
    IF FinalScore(DeviationRate(price, benchmark_price)) < 0 THEN "int" ELSE "float"

-----------------------------------------------------------------------------
(* The result log: result.json holds {"records": [...]} *)

\* Numbers are scaled integers in the model; a float keeps, beside its
\* value, the sign of a zero, and json.dump writes repr(x): the kinds of the
\* numbers of an item say how Python holds them ("int", "float", "-0.0").
\* A text is the sequence of its characters.

Digits == <<"0", "1", "2", "3", "4", "5", "6", "7", "8", "9">>

DigitChar(d) == Digits[d + 1]

\* the digit each character stands for
DigitValues ==
    [c \in {Digits[i] : i \in DOMAIN Digits} |-> (CHOOSE i \in DOMAIN Digits : Digits[i] = c) - 1]

DigitValue(c) == DigitValues[c]

RECURSIVE Pow10(_)
Pow10(n) == IF n = 0 THEN 1 ELSE 10 * Pow10(n - 1)

\* the digits of n >= 0, no leading zero
RECURSIVE DigitsOf(_)
DigitsOf(n) ==
    IF n < 10 THEN <<DigitChar(n)>>
    ELSE Append(DigitsOf(n \div 10), DigitChar(n % 10))

\* the n digits of frac < 10^n, leading zeros kept
RECURSIVE PadDigits(_, _)
PadDigits(frac, n) ==
    IF n = 0 THEN <<>>
    ELSE Append(PadDigits(frac \div 10, n - 1), DigitChar(frac % 10))

RECURSIVE StripZeros(_)
StripZeros(digits) ==
    IF Len(digits) > 1 /\ digits[Len(digits)] = "0"
    THEN StripZeros(SubSeq(digits, 1, Len(digits) - 1))
    ELSE digits

\* repr(x) for the int x = v
IntRepr(v) == (IF v < 0 THEN <<"-">> ELSE <<>>) \o DigitsOf(Abs(v))

\* repr(x) for the float x = v / 10^n, 0.0001 <= |x| < 10^16 or x zero: the
\* shortest decimal that reads back as x, with one fractional digit at
\* least; minus_zero is the sign bit of a zero
FloatRepr(v, n, minus_zero) ==
    (IF v < 0 \/ (v = 0 /\ minus_zero) THEN <<"-">> ELSE <<>>)
        \o DigitsOf(Abs(v) \div Pow10(n))
        \o <<".">>
        \o (IF Abs(v) % Pow10(n) = 0 THEN <<"0">>
            ELSE StripZeros(PadDigits(Abs(v) % Pow10(n), n)))

\* json.dump of a number of n fractional digits
NumberText(v, n, kind) ==
    IF kind = "int" THEN IntRepr(v) ELSE FloatRepr(v, n, kind = "-0.0")

\* the value of the run of digits text[from..to]
RECURSIVE DigitsValue(_, _, _)
DigitsValue(text, from, to) ==
    IF from > to THEN 0
    ELSE DigitsValue(text, from, to - 1) * 10 + DigitValue(text[to])

\* where the "." of a number is, Len + 1 when it has none
PointOf(text) ==
    LET points == {i \in DOMAIN text : text[i] = "."}
    IN  IF points = {} THEN Len(text) + 1 ELSE CHOOSE i \in points : TRUE

\* json.load of a number, int(text) or float(text), in units of 10^-n (the
\* fractional digits of the text beyond the n-th are zeros)
NumberValue(text, n) ==
    LET first == IF text[1] = "-" THEN 2 ELSE 1
        point == PointOf(text)
        frac  == IF point > Len(text) THEN 0 ELSE Len(text) - point
    IN  (IF text[1] = "-" THEN -1 ELSE 1)
            * (DigitsValue(text, first, point - 1) * Pow10(n)
                 + (IF frac <= n
                    THEN DigitsValue(text, point + 1, Len(text)) * Pow10(n - frac)
                    ELSE DigitsValue(text, point + 1, Len(text)) \div Pow10(frac - n)))

\* json.load gives an int for a text without ".", a float otherwise
NumberKind(text) ==
    IF PointOf(text) > Len(text) THEN "int"
    ELSE IF text = <<"-", "0", ".", "0">> THEN "-0.0"
    ELSE "float"

\* the member of JSON object obj (a sequence of <<key, value>> pairs) named key
Member(obj, key) == obj[CHOOSE i \in DOMAIN obj : obj[i][1] = key][2]

\* json.dump of one item dict: the members in insertion order (lines 218-225),
\* every number as its text
DumpItem(item) ==
    << <<"price", NumberText(item.price, 0, item.kinds.price)>>,
       <<"bid_float_rate", NumberText(item.bid_float_rate, 4, item.kinds.bid_float_rate)>>,
       <<"config_name", item.config_name>>,
       <<"final_float_a", NumberText(item.final_float_a, 4, item.kinds.final_float_a)>>,
       <<"benchmark_price", NumberText(item.benchmark_price, 2, "float")>>,
       <<"score", NumberText(item.score, 2, item.kinds.score)>> >>

LoadItem(obj) ==
    [price           |-> NumberValue(Member(obj, "price"), 0),
     bid_float_rate  |-> NumberValue(Member(obj, "bid_float_rate"), 4),
     config_name     |-> Member(obj, "config_name"),
     final_float_a   |-> NumberValue(Member(obj, "final_float_a"), 4),
     benchmark_price |-> NumberValue(Member(obj, "benchmark_price"), 2),
     score           |-> NumberValue(Member(obj, "score"), 2),
     kinds           |-> [price          |-> NumberKind(Member(obj, "price")),
                          bid_float_rate |-> NumberKind(Member(obj, "bid_float_rate")),
                          final_float_a  |-> NumberKind(Member(obj, "final_float_a")),
                          score          |-> NumberKind(Member(obj, "score"))]]

\* json.dump of one record dict (lines 231-235); the timestamp is a string
\* and is written and read back as it is
DumpRecord(record) ==
    << <<"items", [i \in DOMAIN record.items |-> DumpItem(record.items[i])]>>,
       <<"timestamp", record.timestamp>>,
       <<"avg_price", NumberText(record.avg_price, 2, "float")>> >>

LoadRecord(obj) ==
    [items     |-> [i \in DOMAIN Member(obj, "items") |-> LoadItem(Member(obj, "items")[i])],
     timestamp |-> Member(obj, "timestamp"),
     avg_price |-> NumberValue(Member(obj, "avg_price"), 2)]

\* _save_result: json.dump(data, f) rewrites the whole file
_save_result(data) ==
    << <<"records", [i \in DOMAIN data.records |-> DumpRecord(data.records[i])]>> >>

\* _load_result: json.load(f) of the whole file
_load_result(doc) ==
    [records |-> [i \in DOMAIN Member(doc, "records") |-> LoadRecord(Member(doc, "records")[i])]]

\* The text json.dump(data, f, indent=4) writes, by its length in
\* characters: the texts of the numbers and the name, and the braces,
\* brackets, keys, separators and indentation around them.  The text is
\* shorter than the buffer of the file object, so it reaches the file in one
\* write when the file is closed.

\* the configuration names of the model are one letter
NameLen(name) == 1

\* one item: 36 characters of braces and indentation, six lines of 20
\* spaces, key, colon and value, five separators, the quotes of the name
ItemLen(obj) ==
    255 + Len(Member(obj, "price")) + Len(Member(obj, "bid_float_rate"))
        + NameLen(Member(obj, "config_name")) + Len(Member(obj, "final_float_a"))
        + Len(Member(obj, "benchmark_price")) + Len(Member(obj, "score"))

RECURSIVE ItemsLen(_)
ItemsLen(objs) ==
    IF objs = <<>> THEN 0
    ELSE ItemLen(Head(objs)) + (IF Len(objs) > 1 THEN 2 ELSE 0) + ItemsLen(Tail(objs))

\* one record (it has at least one item); the timestamp is the 19
\* characters of '%Y-%m-%d %H:%M:%S'
RecordLen(obj) ==
    132 + ItemsLen(Member(obj, "items")) + Len(Member(obj, "avg_price"))

RECURSIVE RecordsLen(_)
RecordsLen(objs) ==
    IF objs = <<>> THEN 0
    ELSE RecordLen(Head(objs)) + (IF Len(objs) > 1 THEN 2 ELSE 0)
            + RecordsLen(Tail(objs))

\* the length of the text of a document
DocLen(doc) ==
    IF Member(doc, "records") = <<>> THEN 21
    ELSE 27 + RecordsLen(Member(doc, "records"))

\* the length of the text json.dump writes for data
TextLen(data) == DocLen(_save_result(data))

\* The content of result.json is a whole document (one "records" member),
\* nothing at all (the file was opened for writing and nothing was written
\* yet), or a whole document followed by what shorter writes left of longer
\* texts: <<"extra data", doc, from, to>> stands for the characters from
\* (counted from 0) up to to - 1 of the text of the document doc.  A text
\* read from the file is a sequence of pieces <<doc, from, to>> of the same
\* meaning.

\* line 37: open(result_path, 'w') truncates the file
EmptyFile == <<>>

\* json.load succeeds on a whole document only
Parses(content) == Len(content) = 1

\* the length of the file in characters
ContentLen(content) ==
    IF content = <<>> THEN 0
    ELSE IF Len(content) = 1 THEN DocLen(content)
    ELSE content[Len(content)][4]

\* the content as pieces
Pieces(content) ==
    [i \in DOMAIN content |->
        IF i = 1 THEN << <<content[1]>>, 0, DocLen(<<content[1]>>) >>
        ELSE <<content[i][2], content[i][3], content[i][4]>>]

\* the characters from a up to b - 1 of a text in pieces
Slice(pieces, a, b) ==
    SelectSeq([i \in DOMAIN pieces |->
                  <<pieces[i][1],
                    IF pieces[i][2] < a THEN a ELSE pieces[i][2],
                    IF pieces[i][3] > b THEN b ELSE pieces[i][3]>>],
              LAMBDA piece : piece[2] < piece[3])

\* line 38 and the close of the file: the text of data is written from
\* offset 0 over what the file holds by then; the file is not truncated
\* again, so what a longer content holds beyond the text stays
WriteOver(content, data) ==
    _save_result(data)
        \o [i \in DOMAIN Slice(Pieces(content), TextLen(data), ContentLen(content)) |->
               <<"extra data">>
                   \o Slice(Pieces(content), TextLen(data), ContentLen(content))[i]]

\* line 32: json.load raises json.JSONDecodeError (a ValueError) on a file
\* that holds no whole document
JSONDecodeError(content) ==
    [cls |-> "JSONDecodeError",
     msg |-> IF content = <<>> THEN "Expecting value" ELSE "Extra data"]

\* a read of result.json in progress: the size of the buffer, the number of
\* characters read and the text read
NotReading == [bufsize |-> 0, pos |-> 0, text |-> <<>>]

\* fileio.c: the least size of the read buffer of FileIO.readall
SMALLCHUNK == 8192

\* FileIO.readall: the buffer takes the rest of the file and one byte more
\* (the file is read from its start), SMALLCHUNK bytes for an empty file
FirstBufferSize(size) == IF size > 0 THEN size + 1 ELSE SMALLCHUNK

\* FileIO.readall, new_buffersize: a full buffer grows by 256 bytes and its
\* size, by SMALLCHUNK at least (the texts of the model stay below 65536
\* characters)
GrownBufferSize(rd) ==
    IF rd.pos >= rd.bufsize
    THEN rd.pos + (IF 256 + rd.pos < SMALLCHUNK THEN SMALLCHUNK ELSE 256 + rd.pos)
    ELSE rd.bufsize

\* read(fd, buf + bytes_read, bufsize - bytes_read) on a file of size
\* characters: what lies beyond the position, as far as the buffer goes
ReadCount(rd, size) ==
    IF size <= rd.pos THEN 0
    ELSE IF size - rd.pos < GrownBufferSize(rd) - rd.pos THEN size - rd.pos
    ELSE GrownBufferSize(rd) - rd.pos

\* a text and the pieces read next; characters that follow the last piece
\* in the same document join it
RECURSIVE AddPieces(_, _)
AddPieces(text, pieces) ==
    IF pieces = <<>> THEN text
    ELSE IF text # <<>> /\ text[Len(text)][1] = Head(pieces)[1]
                        /\ text[Len(text)][3] = Head(pieces)[2]
         THEN AddPieces([text EXCEPT ![Len(text)] = <<Head(pieces)[1], text[Len(text)][2],
                                                      Head(pieces)[3]>>],
                        Tail(pieces))
         ELSE AddPieces(Append(text, Head(pieces)), Tail(pieces))

ReadMore(rd, content, n) ==
    [bufsize |-> GrownBufferSize(rd),
     pos     |-> rd.pos + n,
     text    |-> AddPieces(rd.text, Slice(Pieces(content), rd.pos, rd.pos + n))]

\* the piece is the whole text of its document
WholePiece(piece) == piece[2] = 0 /\ piece[3] = DocLen(piece[1])

\* the text of longer is the text of doc with one more record: where the
\* text of doc closes the list of records ("\n    ]\n}", or "]\n}" for an
\* empty list), the text of longer goes on to its next record (",\n" for a
\* list that was not empty, "\n" for an empty one) with eight spaces of
\* indentation.  The spaces are the characters DocLen(doc) - 6 up to
\* DocLen(doc) + 1 (- 2 up to + 5 for an empty list).
OneMoreRecord(doc, longer) ==
    /\ Len(_load_result(longer).records) = Len(_load_result(doc).records) + 1
    /\ SubSeq(_load_result(longer).records, 1, Len(_load_result(doc).records))
           = _load_result(doc).records

IndentEnd(doc) ==
    DocLen(doc) + (IF _load_result(doc).records = <<>> THEN 6 ELSE 2)

\* the text is a whole document followed by spaces only: by its length, the
\* piece after it lies in the indentation of the next record
SpacesAfter(text) ==
    /\ Len(text) = 2
    /\ WholePiece(text[1])
    /\ OneMoreRecord(text[1][1], text[2][1])
    /\ text[2][2] = DocLen(text[1][1])
    /\ text[2][3] <= IndentEnd(text[1][1])

\* the text stops after the "[" or the "," that comes before a record and
\* before that record: json.load finds no value where one has to follow
StopsInIndent(text) ==
    /\ Len(text) = 1
    /\ text[1][2] = 0
    /\ text[1][3] < DocLen(text[1][1])
    /\ \E k \in 0..(Len(_load_result(text[1][1]).records) - 1) :
          \E doc \in {_save_result([records |-> SubSeq(_load_result(text[1][1]).records, 1, k)])} :
              /\ text[1][3] > DocLen(doc) - (IF k = 0 THEN 4 ELSE 8)
              /\ text[1][3] <= IndentEnd(doc)

\* the text ends where the text of a document ends
EndsDocument(text) == text[Len(text)][3] = DocLen(text[Len(text)][1])

\* json.load succeeds on the text of a whole document, spaces after it or
\* not
TextParses(text) ==
    \/ Len(text) = 1 /\ WholePiece(text[1])
    \/ SpacesAfter(text)

LoadText(text) == _load_result(text[1][1])

\* json.load on the other texts a read of the model ends with: nothing at
\* all; a whole document followed by more that ends with the end of a
\* document; the start of a document up to the indentation of a record
TextError(text) ==
    CASE text = <<>> -> JSONDecodeError(EmptyFile)
      [] Len(text) > 1 /\ WholePiece(text[1]) /\ EndsDocument(text) /\ ~SpacesAfter(text)
              -> [cls |-> "JSONDecodeError", msg |-> "Extra data"]
      [] text # <<>> /\ StopsInIndent(text)
              -> [cls |-> "JSONDecodeError", msg |-> "Expecting value"]

\* mutant of AppendRecord: the new record replaces the loaded ones
OverwriteRecords(result, new_record) ==
    [records |-> <<new_record>>]

\* line 239: result['records'].append(new_record)
AppendRecord(result, new_record) ==
    [records |-> Append(result.records, new_record)]

\* _ensure_result_file, and reset_all line 118: {'records': []}
EmptyLog == [records |-> <<>>]

-----------------------------------------------------------------------------
(* calc *)

\* mutant of Validate: only the first price is checked
ValidateFirstOnly(price_list) ==
    IF price_list = <<>> THEN EmptyListError
    ELSE IF (~price_list[1].isnum) \/ price_list[1].val < 0
         THEN InvalidPriceError
         ELSE NoError

\* lines 181-185: the first check that fails raises (the argument is a
\* list: line 179 turns anything else away)
Validate(price_list) ==
    IF price_list = <<>> THEN EmptyListError
    ELSE IF \E i \in DOMAIN price_list :
                (~price_list[i].isnum) \/ price_list[i].val < 0
         THEN InvalidPriceError
         ELSE NoError

\* mutant of ScoreItem: a zero benchmark price is given the score 0
ScoreItemZeroGuard(price, config, avg_price, standard) ==
    IF standard = 0
    THEN [err |-> DivisionError(price.val - standard), item |-> <<>>]
    ELSE LET bid_float_rate  == _calculate_float_rate(price.val, standard)
             final_float_a   == _calculate_final_float_a(bid_float_rate, config.float_a)
             benchmark_price == _calculate_benchmark_price(avg_price, config,
                                                           final_float_a, standard)
         IN  [err  |-> NoError,
              item |-> [price           |-> price.val,
                        bid_float_rate  |-> bid_float_rate,
                        config_name     |-> config.name,
                        final_float_a   |-> final_float_a,
                        benchmark_price |-> benchmark_price,
                        score           |-> IF benchmark_price = 0 THEN 0
                                            ELSE _calculate_score(price.val, benchmark_price),
                        kinds           |->
                            [price          |-> price.kind,
                             bid_float_rate |-> FloatRateKind(price.val, standard),
                             final_float_a  |-> FinalFloatAKind(bid_float_rate, config.float_a),
                             score          |-> IF benchmark_price = 0 THEN "int"
                                                ELSE ScoreKind(price.val, benchmark_price)]]]

\* lines 198-225: one pass of the loop body once a config was selected, for
\* the price object price; a zero divisor raises in _calculate_float_rate
\* (line 94) or in _calculate_score (line 158).  The item holds the value of
\* each number and, in kinds, how Python holds it.
ScoreItem(price, config, avg_price, standard) ==
    IF standard = 0
    THEN [err |-> DivisionError(price.val - standard), item |-> <<>>]
    ELSE LET bid_float_rate  == _calculate_float_rate(price.val, standard)
             final_float_a   == _calculate_final_float_a(bid_float_rate, config.float_a)
             benchmark_price == _calculate_benchmark_price(avg_price, config,
                                                           final_float_a, standard)
         IN  IF benchmark_price = 0
             THEN [err |-> DivisionError(price.val * 100 - benchmark_price), item |-> <<>>]
             ELSE [err  |-> NoError,
                   item |-> [price           |-> price.val,
                             bid_float_rate  |-> bid_float_rate,
                             config_name     |-> config.name,
                             final_float_a   |-> final_float_a,
                             benchmark_price |-> benchmark_price,
                             score           |-> _calculate_score(price.val, benchmark_price),
                             kinds           |->
                                 [price          |-> price.kind,
                                  bid_float_rate |-> FloatRateKind(price.val, standard),
                                  final_float_a  |-> FinalFloatAKind(bid_float_rate,
                                                                     config.float_a),
                                  score          |-> ScoreKind(price.val, benchmark_price)]]]

\* mutant of ScoreItems: the loop ends one price early
RECURSIVE ScoreItemsOffByOne(_, _, _, _, _, _, _)
ScoreItemsOffByOne(price_list, picks, avg_price, standard, cfgs, i, items) ==
    IF i >= Len(price_list)
    THEN [err |-> NoError, items |-> items, picked |-> SubSeq(picks, 1, i - 1)]
    ELSE IF cfgs = <<>>
    THEN [err |-> NoConfigError, items |-> items, picked |-> <<>>]
    ELSE The({ IF one.err # NoError
               THEN [err |-> one.err, items |-> items, picked |-> SubSeq(picks, 1, i)]
               ELSE ScoreItemsOffByOne(price_list, picks, avg_price, standard, cfgs,
                                       i + 1, Append(items, one.item))
               : one \in {ScoreItem(price_list[i], cfgs[picks[i]], avg_price, standard)} })

\* lines 191-225: the loop over prices, from index i with the items so far;
\* picks[i] is the index random.choice draws for price i.  The loop stops
\* at the first exception.
RECURSIVE ScoreItems(_, _, _, _, _, _, _)
ScoreItems(price_list, picks, avg_price, standard, cfgs, i, items) ==
    IF i > Len(price_list)
    THEN [err |-> NoError, items |-> items, picked |-> SubSeq(picks, 1, i - 1)]
    ELSE IF cfgs = <<>>
    THEN [err |-> NoConfigError, items |-> items, picked |-> <<>>]
    ELSE The({ IF one.err # NoError
               THEN [err |-> one.err, items |-> items, picked |-> SubSeq(picks, 1, i)]
               ELSE ScoreItems(price_list, picks, avg_price, standard, cfgs,
                               i + 1, Append(items, one.item))
               : one \in {ScoreItem(price_list[i], cfgs[picks[i]], avg_price, standard)} })

\* mutant of InsertByScore: x goes ahead of the items with its own score
InsertByScoreUnstable(sorted, x) ==
    LET k == Cardinality({j \in DOMAIN sorted : sorted[j].score > x.score})
    IN  SubSeq(sorted, 1, k) \o <<x>> \o SubSeq(sorted, k + 1, Len(sorted))

\* x goes behind every item whose score is at least its own
InsertByScore(sorted, x) ==
    LET k == Cardinality({j \in DOMAIN sorted : sorted[j].score >= x.score})
    IN  SubSeq(sorted, 1, k) \o <<x>> \o SubSeq(sorted, k + 1, Len(sorted))

\* line 228: items.sort(key=score, reverse=True); list.sort is stable, also
\* with reverse=True
RECURSIVE SortByScore(_)
SortByScore(items) ==
    IF items = <<>> THEN <<>>
    ELSE The({ InsertByScore(sorted, items[Len(items)])
               : sorted \in {SortByScore(SubSeq(items, 1, Len(items) - 1))} })

\* lines 178-235: validation, average, the loop, the sort and the new
\* record; an exception leaves no record
BuildRecord(price_list, picks, now, standard, cfgs) ==
    IF Validate(price_list) # NoError
    THEN [err |-> Validate(price_list), record |-> NoRecord, picked |-> <<>>]
    ELSE LET price_values == [i \in DOMAIN price_list |-> price_list[i].val]
             avg_price    == _calculate_average(price_values)
         IN  The({ IF scored.err # NoError
                   THEN [err |-> scored.err, record |-> NoRecord, picked |-> scored.picked]
                   ELSE [err    |-> NoError,
                         record |-> [items     |-> SortByScore(scored.items),
                                     timestamp |-> now,
                                     avg_price |-> avg_price],
                         picked |-> scored.picked]
                   : scored \in {ScoreItems(price_list, picks, avg_price, standard,
                                            cfgs, 1, <<>>)} })

\* lines 238-240: load the whole log, append, write the whole log
Persist(new_record, doc) ==
    _save_result(AppendRecord(_load_result(doc), new_record))

\* mutant of calc: the log is written even when an exception is on its way
calcSavesOnError(price_list, picks, now, standard, cfgs, doc) ==
    The({ [err    |-> built.err,
           ret    |-> built.record,
           picked |-> built.picked,
           file   |-> Persist(built.record, doc)]
          : built \in {BuildRecord(price_list, picks, now, standard, cfgs)} })

\* FractionCalculator.calc(prices): picks are the draws of random.choice,
\* now is datetime.now(), doc the content of result.json when calc runs.
\* An exception propagates before line 238: nothing is written or returned.
\* Line 238 itself raises when result.json holds no whole document.
calc(price_list, picks, now, standard, cfgs, doc) ==
    The({ IF built.err = NoError /\ ~Parses(doc)
          THEN [err    |-> JSONDecodeError(doc),
                ret    |-> NoRecord,
                picked |-> built.picked,
                file   |-> doc]
          ELSE [err    |-> built.err,
                ret    |-> built.record,
                picked |-> built.picked,
                file   |-> IF built.err = NoError THEN Persist(built.record, doc) ELSE doc]
          : built \in {BuildRecord(price_list, picks, now, standard, cfgs)} })

\* the draws random.choice can make for n prices
Picks(n, cfgs) ==
    IF cfgs = <<>> THEN {[i \in 1..n |-> 1]}
    ELSE [1..n -> 1..Len(cfgs)]

-----------------------------------------------------------------------------
(* Spec: one calculator used sequentially, calc and reset in any order *)

IdleUnit == unit_fn = "none" /\ unit_arg = <<>> /\ unit_out = <<>>

\* the threads that run the handlers
Handlers == Threads

\* the names of the list objects
ListIds == 0..3

\* create_ui, line 157: the list of the component gr.State([None])
StateList == 0

\* the handler was given no list
NoList == -1

\* a thread that runs no handler
IdleFrame ==
    [pc |-> "idle", fn |-> "none", idx |-> 0, x |-> EmptyInput, prices |-> NoList,
     num_inputs |-> 0, i |-> 0, valid_prices |-> <<>>, hit |-> FALSE, nth |-> 0]

\* create_ui, lines 157-158: prices_state = gr.State([None]),
\* num_inputs_state = gr.State(1); the session starts with its own copy of
\* the values of the State components
IdleUI ==
    /\ lists = [o \in ListIds |-> IF o \in {StateList, 1} THEN <<EmptyInput>> ELSE <<>>]
    /\ prices_state = 1
    /\ num_inputs = 1
    /\ frames = [h \in Handlers |-> IdleFrame]

\* no handler is running
Quiescent == \A h \in Handlers : frames[h].pc = "idle"

\* prices_state as the handlers see it: the list the session holds
ui_prices == lists[prices_state]

IdleConc ==
    /\ t_pc = [t \in Threads |-> "idle"]
    /\ t_record = [t \in Threads |-> NoRecord]
    /\ t_result = [t \in Threads |-> EmptyLog]
    /\ t_ret = [t \in Threads |-> NoRecord]
    /\ t_err = [t \in Threads |-> NoError]
    /\ t_read = [t \in Threads |-> NotReading]
    /\ r_pc = "idle"

\* __init__: _ensure_result_file leaves an existing result.json alone and
\* creates an empty log otherwise
Init ==
    /\ standard_price = DefaultStandardPrice
    /\ configs \in LogConfigLists
    /\ file = _save_result(EmptyLog)
    /\ prices = <<>>
    /\ picked = <<>>
    /\ ret = NoRecord
    /\ err = NoError
    /\ pc = "ready"
    /\ IdleUnit
    /\ IdleConc
    /\ IdleUI

\* one whole call calc(price_list)
Call(price_list) ==
    \E now \in Timestamps :
        \E picks \in Picks(Len(price_list), configs) :
            \E o \in {calc(price_list, picks, now, standard_price, configs, file)} :
                /\ prices' = price_list
                /\ picked' = o.picked
                /\ ret' = o.ret
                /\ err' = o.err
                /\ file' = o.file
                /\ pc' = "calc"
                /\ UNCHANGED <<standard_price, configs, unit_vars, ui_vars, conc_vars>>

\* sequential use: a call starts when the one before it has returned
CalcCall ==
    /\ pc # "reset_open"
    /\ Len(_load_result(file).records) < MaxLog
    /\ \E price_list \in LogPriceLists : Call(price_list)

\* PriceCalculatorUI.reset_all, line 118: _save_result({'records': []})
\* opens result.json for writing, which empties it (_save_result line 37)
ResetOpen ==
    /\ pc # "reset_open"
    /\ file' = EmptyFile
    /\ prices' = <<>>
    /\ picked' = <<>>
    /\ ret' = NoRecord
    /\ err' = NoError
    /\ pc' = "reset_open"
    /\ UNCHANGED <<standard_price, configs, unit_vars, conc_vars, ui_vars>>

\* reset_all, line 118: the text of the empty log is written (_save_result
\* line 38) and the call goes on to return
ResetDump ==
    /\ pc = "reset_open"
    /\ file' = WriteOver(file, EmptyLog)
    /\ pc' = "reset"
    /\ UNCHANGED <<standard_price, configs, prices, picked, ret, err,
                   unit_vars, conc_vars, ui_vars>>

Next == CalcCall \/ ResetOpen \/ ResetDump

Spec == Init /\ [][Next]_vars

-----------------------------------------------------------------------------
(* SpecCalc: one call of calc on every input of the domain *)

\* a record an earlier run left in result.json
EarlierRecord ==
    calc(<<Num(5200)>>, <<1>>, 1, DefaultStandardPrice, <<ConfigA>>,
         _save_result(EmptyLog)).ret

InitialFiles ==
    {_save_result(EmptyLog), _save_result([records |-> <<EarlierRecord>>])}

InitCalc ==
    /\ standard_price \in StandardPrices
    /\ configs \in ConfigLists
    /\ file \in InitialFiles
    /\ prices \in PriceLists
    /\ picked = <<>>
    /\ ret = NoRecord
    /\ err = NoError
    /\ pc = "ready"
    /\ IdleUnit
    /\ IdleConc
    /\ IdleUI

CalcOnce == pc = "ready" /\ Call(prices)

NextCalc == CalcOnce

SpecCalc == InitCalc /\ [][NextCalc]_vars

-----------------------------------------------------------------------------
(* SpecRange: one call of calc, the standard price positive, every        *)
(* configuration in its normal ranges, the price list valid               *)

InitRange ==
    /\ standard_price \in RangeStandardPrices
    /\ configs \in RangeConfigLists
    /\ file = _save_result(EmptyLog)
    /\ prices \in RangePriceLists
    /\ picked = <<>>
    /\ ret = NoRecord
    /\ err = NoError
    /\ pc = "ready"
    /\ IdleUnit
    /\ IdleConc
    /\ IdleUI

RangeCalc == pc = "ready" /\ Call(prices)

NextRange == RangeCalc

SpecRange == InitRange /\ [][NextRange]_vars

-----------------------------------------------------------------------------
(* SpecUnit: the calculators as pure functions *)

InitUnit ==
    /\ standard_price = DefaultStandardPrice
    /\ configs = <<>>
    /\ file = _save_result(EmptyLog)
    /\ prices = <<>>
    /\ picked = <<>>
    /\ ret = NoRecord
    /\ err = NoError
    /\ pc = "ready"
    /\ unit_fn = "_calculate_final_float_a"
    /\ unit_arg \in RateValues \X FloatAValues
    /\ unit_out = <<>>
    /\ IdleConc
    /\ IdleUI

ApplyFinalFloatA ==
    /\ unit_fn = "_calculate_final_float_a"
    /\ unit_out = <<>>
    /\ unit_out' = <<_calculate_final_float_a(unit_arg[1], unit_arg[2])>>
    /\ UNCHANGED <<seq_vars, unit_fn, unit_arg, ui_vars, conc_vars>>

NextUnit == ApplyFinalFloatA

SpecUnit == InitUnit /\ [][NextUnit]_vars

-----------------------------------------------------------------------------
(* SpecScore: _calculate_score as a pure function *)

InitScore ==
    /\ standard_price = DefaultStandardPrice
    /\ configs = <<>>
    /\ file = _save_result(EmptyLog)
    /\ prices = <<>>
    /\ picked = <<>>
    /\ ret = NoRecord
    /\ err = NoError
    /\ pc = "ready"
    /\ unit_fn = "_calculate_score"
    /\ unit_arg \in ScoreArgs
    /\ unit_out = <<>>
    /\ IdleConc
    /\ IdleUI

\* _calculate_score(price, benchmark_price): line 158 raises for a zero
\* benchmark price, and nothing is returned
ApplyScore ==
    /\ unit_fn = "_calculate_score"
    /\ unit_out = <<>>
    /\ err = NoError
    /\ IF unit_arg[2] = 0
       THEN /\ err' = DivisionError(unit_arg[1] * 100 - unit_arg[2])
            /\ unit_out' = <<>>
       ELSE /\ err' = NoError
            /\ unit_out' = <<_calculate_score(unit_arg[1], unit_arg[2])>>
    /\ UNCHANGED <<standard_price, configs, file, prices, picked, ret, pc,
                   unit_fn, unit_arg, ui_vars, conc_vars>>

NextScore == ApplyScore

SpecScore == InitScore /\ [][NextScore]_vars

-----------------------------------------------------------------------------
(* SpecConc: two threads call calc on the same calculator, and reset_all   *)
(* of the front end may run once beside them.  Line 238 is the steps of    *)
(* f.read(): the sizing of the buffer and one step for each read() of the  *)
(* file; line 239 is a step, and so are the two halves of a _save_result:  *)
(* opening result.json for writing and writing it.                         *)

InitConc ==
    /\ standard_price = DefaultStandardPrice
    /\ configs \in ConcConfigLists
    /\ file \in InitialFiles
    /\ prices = <<>>
    /\ picked = <<>>
    /\ ret = NoRecord
    /\ err = NoError
    /\ pc = "ready"
    /\ IdleUnit
    /\ t_pc = [t \in Threads |-> "start"]
    /\ t_record = [t \in Threads |-> NoRecord]
    /\ t_result = [t \in Threads |-> EmptyLog]
    /\ t_ret = [t \in Threads |-> NoRecord]
    /\ t_err = [t \in Threads |-> NoError]
    /\ t_read = [t \in Threads |-> NotReading]
    /\ r_pc = "idle"
    /\ IdleUI

\* lines 178-235 on the argument price_list: thread-local; an exception ends
\* the call
Build(t, price_list, nows) ==
    \E now \in nows :
        \E picks \in Picks(Len(price_list), configs) :
            \E built \in {BuildRecord(price_list, picks, now, standard_price, configs)} :
                /\ t_record' = [t_record EXCEPT ![t] = built.record]
                /\ t_err' = [t_err EXCEPT ![t] = built.err]
                /\ t_pc' = [t_pc EXCEPT ![t] = IF built.err = NoError THEN "load"
                                               ELSE "raised"]

\* a thread calls calc
BuildStep(t) ==
    /\ t_pc[t] = "start"
    /\ \E price_list \in ConcPriceLists : Build(t, price_list, Timestamps)
    /\ UNCHANGED <<seq_vars, unit_vars, ui_vars, t_result, t_ret, t_read, r_pc>>

\* line 238, _load_result lines 30-32: open(result_path, 'r') and the start
\* of json.load(f), whose f.read() is FileIO.readall: the buffer is sized
\* from the size the file has now
StatStep(t) ==
    /\ t_pc[t] = "load"
    /\ t_read' = [t_read EXCEPT ![t] = [bufsize |-> FirstBufferSize(ContentLen(file)),
                                        pos |-> 0, text |-> <<>>]]
    /\ t_pc' = [t_pc EXCEPT ![t] = "read"]
    /\ UNCHANGED <<seq_vars, unit_vars, ui_vars, t_record, t_result, t_ret, t_err, r_pc>>

\* line 238, _load_result line 32: one read() of FileIO.readall.  It returns
\* what the file holds now from the position reached, as far as the buffer
\* goes; a read that returns nothing ends f.read(), and json.load parses the
\* text read so far: it raises when that is no whole document, and the call
\* ends
ReadStep(t) ==
    /\ t_pc[t] = "read"
    /\ \E n \in {ReadCount(t_read[t], ContentLen(file))} :
          IF n > 0
          THEN /\ t_read' = [t_read EXCEPT ![t] = ReadMore(t_read[t], file, n)]
               /\ UNCHANGED <<t_pc, t_result, t_err>>
          ELSE /\ t_read' = [t_read EXCEPT ![t] = NotReading]
               /\ IF TextParses(t_read[t].text)
                  THEN /\ t_result' = [t_result EXCEPT ![t] = LoadText(t_read[t].text)]
                       /\ t_pc' = [t_pc EXCEPT ![t] = "append"]
                       /\ t_err' = t_err
                  ELSE /\ t_result' = t_result
                       /\ t_pc' = [t_pc EXCEPT ![t] = "raised"]
                       /\ t_err' = [t_err EXCEPT ![t] = TextError(t_read[t].text)]
    /\ UNCHANGED <<seq_vars, unit_vars, ui_vars, t_record, t_ret, r_pc>>

\* line 239: result['records'].append(new_record)
AppendStep(t) ==
    /\ t_pc[t] = "append"
    /\ t_result' = [t_result EXCEPT ![t] = AppendRecord(t_result[t], t_record[t])]
    /\ t_pc' = [t_pc EXCEPT ![t] = "save"]
    /\ UNCHANGED <<seq_vars, unit_vars, ui_vars, t_record, t_ret, t_err, t_read, r_pc>>

\* line 240, _save_result line 37: open(result_path, 'w') empties the file
OpenStep(t) ==
    /\ t_pc[t] = "save"
    /\ file' = EmptyFile
    /\ t_pc' = [t_pc EXCEPT ![t] = "dump"]
    /\ UNCHANGED <<standard_price, configs, prices, picked, ret, err, pc,
                   unit_vars, ui_vars, t_record, t_result, t_ret, t_err, t_read, r_pc>>

\* mutant of DumpStep: the record is added to the log the file holds by now
DumpStepMerging(t) ==
    /\ t_pc[t] = "dump"
    /\ file' = IF Parses(file) THEN Persist(t_record[t], file)
               ELSE WriteOver(file, t_result[t])
    /\ t_pc' = [t_pc EXCEPT ![t] = "return"]
    /\ UNCHANGED <<standard_price, configs, prices, picked, ret, err, pc,
                   unit_vars, ui_vars, t_record, t_result, t_ret, t_err, t_read, r_pc>>

\* line 240, _save_result line 38 and the end of the with block: the text
\* (shorter than the file buffer) reaches the file in one write at offset 0
DumpStep(t) ==
    /\ t_pc[t] = "dump"
    /\ file' = WriteOver(file, t_result[t])
    /\ t_pc' = [t_pc EXCEPT ![t] = "return"]
    /\ UNCHANGED <<standard_price, configs, prices, picked, ret, err, pc,
                   unit_vars, ui_vars, t_record, t_result, t_ret, t_err, t_read, r_pc>>

\* line 242: return new_record
ReturnStep(t) ==
    /\ t_pc[t] = "return"
    /\ t_ret' = [t_ret EXCEPT ![t] = t_record[t]]
    /\ t_pc' = [t_pc EXCEPT ![t] = "done"]
    /\ UNCHANGED <<seq_vars, unit_vars, ui_vars, t_record, t_result, t_err, t_read, r_pc>>

\* PriceCalculatorUI.reset_all, line 118, run once beside the threads:
\* self.calculator._save_result({'records': []}) opens result.json for
\* writing (_save_result line 37)
ResetOpenStep ==
    /\ r_pc = "idle"
    /\ file' = EmptyFile
    /\ r_pc' = "dump"
    /\ UNCHANGED <<standard_price, configs, prices, picked, ret, err, pc,
                   unit_vars, ui_vars, t_pc, t_record, t_result, t_ret, t_err, t_read>>

\* reset_all, line 118, _save_result line 38: the text of the empty log is
\* written from offset 0
ResetDumpStep ==
    /\ r_pc = "dump"
    /\ file' = WriteOver(file, EmptyLog)
    /\ r_pc' = "done"
    /\ UNCHANGED <<standard_price, configs, prices, picked, ret, err, pc,
                   unit_vars, ui_vars, t_pc, t_record, t_result, t_ret, t_err, t_read>>

NextConc ==
    \/ \E t \in Threads :
          \/ BuildStep(t)
          \/ StatStep(t)
          \/ ReadStep(t)
          \/ AppendStep(t)
          \/ OpenStep(t)
          \/ DumpStep(t)
          \/ ReturnStep(t)
    \/ ResetOpenStep
    \/ ResetDumpStep

SpecConc == InitConc /\ [][NextConc]_vars

-----------------------------------------------------------------------------
(* SpecUI: the web front end.  Gradio keeps, for the session, the objects   *)
(* the handlers returned for prices_state and num_inputs_state and hands    *)
(* them to the next handler, so a handler that changes the list in place    *)
(* changes the list it was given: after a page load that is the list of    *)
(* the State component itself.  Nothing in the code serialises the          *)
(* handlers, and launch (lines 315-320) sets up no queue and no lock: a     *)
(* handler may start while another runs.  Start hands a handler its inputs, *)
(* every later step of a handler is one access to a list other handlers     *)
(* may hold or to result.json, and Return stores its outputs in the         *)
(* session.  Handlers overlap while the lists hold MaxOverlap entries at    *)
(* most; a handler that runs with no step of another handler in between     *)
(* takes one step (handle_add, handle_remove, number_change, page_load).    *)

InitUI ==
    /\ standard_price = DefaultStandardPrice
    /\ configs = <<ConfigA>>
    /\ file = _save_result(EmptyLog)
    /\ prices = <<>>
    /\ picked = <<>>
    /\ ret = NoRecord
    /\ err = NoError
    /\ pc = "ready"
    /\ IdleUnit
    /\ IdleConc
    /\ IdleUI

\* the lists something refers to: the component, the session ps, the
\* handlers f
Held(f, ps) ==
    {StateList, ps} \cup {f[h].prices : h \in {g \in Handlers : f[g].prices # NoList}}

\* a name no list has, for a list handler h makes
NewList(f, ps, h) ==
    CHOOSE o \in ListIds \ Held([f EXCEPT ![h] = IdleFrame], ps) :
        \A q \in ListIds \ Held([f EXCEPT ![h] = IdleFrame], ps) : o <= q

\* what refers to a list, in a fixed order: the session ps, then the
\* handlers f
Refs(f, ps) == <<ps>> \o [h \in 1..Cardinality(Handlers) |-> f[h].prices]

\* the names mean nothing: the list of the component keeps its name, and
\* the other lists are named 1, 2, ... in the order of Refs
Name(o, f, ps) ==
    IF o \in {StateList, NoList} THEN o
    ELSE 1 + Cardinality(
             {Refs(f, ps)[j] :
                  j \in {i \in DOMAIN Refs(f, ps) :
                            \A k \in 1..i : Refs(f, ps)[k] # o}}
                 \ {StateList, NoList})

\* the front end after a step: the lists l, the session holding list ps and
\* n, the handlers f.  A list nothing refers to is gone
Becomes(l, ps, n, f) ==
    /\ frames' = [h \in Handlers |-> [f[h] EXCEPT !.prices = Name(f[h].prices, f, ps)]]
    /\ num_inputs' = n
    /\ prices_state' = Name(ps, f, ps)
    /\ lists' = [q \in ListIds |->
                    IF \E o \in Held(f, ps) : Name(o, f, ps) = q
                    THEN l[CHOOSE o \in Held(f, ps) : Name(o, f, ps) = q]
                    ELSE <<>>]

\* p.pop(idx), idx counted from 0, 0 <= idx < len(p)
Pop(p, idx) == SubSeq(p, 1, idx) \o SubSeq(p, idx + 2, Len(p))

\* p[:idx] + [x] + p[idx+1:]: a slice takes what the list has
Changed(p, idx, x) ==
    SubSeq(p, 1, IF idx < Len(p) THEN idx ELSE Len(p)) \o <<x>>
        \o (IF idx + 2 <= Len(p) THEN SubSeq(p, idx + 2, Len(p)) ELSE <<>>)

\* add_price_input, lines 59-62, a public method no event is bound to:
\* appends with no limit
add_price_input(p, n) ==
    [prices |-> Append(p, EmptyInput), num_inputs |-> n + 1]

\* remove_price_input, lines 64-68, a public method no event is bound to:
\* pops whenever the index is in the list and keeps num_inputs at 1 or more
remove_price_input(p, idx, n) ==
    [prices     |-> IF 0 <= idx /\ idx < Len(p) THEN Pop(p, idx) ELSE p,
     num_inputs |-> IF n - 1 > 1 THEN n - 1 ELSE 1]

\* interface.load, lines 301-306, on a load of the page while no handler
\* runs: the handler returns prices_state.value (the list of the component,
\* not a copy) and num_inputs_state.value
page_load ==
    /\ Quiescent
    /\ Len(lists[StateList]) <= MaxShared
    /\ Becomes(lists, StateList, 1, frames)
    /\ UNCHANGED <<seq_vars, unit_vars, conc_vars>>

\* handle_add, lines 232-237, run with no other handler beside it:
\* prices.append(None) changes the list in place
handle_add ==
    /\ Quiescent
    /\ IF num_inputs < MaxInputs
       THEN Becomes([lists EXCEPT ![prices_state] = Append(@, EmptyInput)],
                    prices_state, num_inputs + 1, frames)
       ELSE Becomes(lists, prices_state, num_inputs, frames)
    /\ UNCHANGED <<seq_vars, unit_vars, conc_vars>>

\* handle_remove, lines 239-244, for the remove button of row idx, run with
\* no other handler beside it: prices.pop(idx) changes the list in place
handle_remove(idx) ==
    /\ Quiescent
    /\ IF num_inputs > 1 /\ 0 <= idx /\ idx < Len(ui_prices)
       THEN Becomes([lists EXCEPT ![prices_state] = Pop(@, idx)],
                    prices_state, num_inputs - 1, frames)
       ELSE Becomes(lists, prices_state, num_inputs, frames)
    /\ UNCHANGED <<seq_vars, unit_vars, conc_vars>>

\* the change handler of number box idx, lines 271-275, run with no other
\* handler beside it: p[:idx] + [x] + p[idx+1:] (a new list) if
\* idx < len(p) else p (the list it was given); only prices_state is an
\* output
number_change(idx, x) ==
    /\ Quiescent
    /\ x.isnum => idx < MaxTyped
    /\ IF idx < Len(ui_prices)
       THEN \E new \in {NewList(frames, prices_state, 1)} :
               Becomes([lists EXCEPT ![new] = Changed(ui_prices, idx, x)],
                       new, num_inputs, frames)
       ELSE Becomes(lists, prices_state, num_inputs, frames)
    /\ UNCHANGED <<seq_vars, unit_vars, conc_vars>>

\* the lists are short enough for handlers to overlap
InWindow ==
    /\ num_inputs <= MaxOverlap
    /\ \A o \in ListIds : Len(lists[o]) <= MaxOverlap

\* the records of the first document of result.json
RecordCount(content) ==
    IF content = EmptyFile THEN 0 ELSE Len(Member(content, "records"))

\* the events of overlapping handlers: the buttons and number boxes of the
\* first rows
OverlapEvents ==
    {[fn |-> "handle_add", idx |-> 0, x |-> EmptyInput],
     [fn |-> "reset_all", idx |-> 0, x |-> EmptyInput],
     [fn |-> "calculate", idx |-> 0, x |-> EmptyInput]}
        \cup {[fn |-> "handle_remove", idx |-> idx, x |-> EmptyInput] : idx \in 0..(MaxOverlap - 1)}
        \cup {[fn |-> "number_change", idx |-> idx, x |-> x] :
                 idx \in 0..(MaxOverlap - 1), x \in UIValues}

\* Gradio starts the handler of an event on a free thread with the values
\* the session holds for its inputs (lines 254-298): prices_state and
\* num_inputs_state for handle_add and handle_remove, prices_state for the
\* change handler and calculate, nothing for reset_all.  The reset and
\* calculate buttons are pressed at any time no handler runs, and the
\* calculate button while fewer than MaxCalcs records are in the log or on
\* their way; any handler starts while the lists are short, alone or beside
\* a running one (nth is its place in the chain of handlers each started
\* beside the one before, MaxBurst at most)
Start(h, ev) ==
    /\ frames[h].pc = "idle"
    /\ \A g \in Handlers : g < h => frames[g].pc # "idle"
    /\ \A g \in Handlers : frames[g].nth < MaxBurst
    /\ InWindow \/ (ev.fn \in {"reset_all", "calculate"} /\ Quiescent)
    /\ (ev.fn = "number_change" /\ ev.x.isnum) => ev.idx < MaxTyped
    /\ ev.fn = "calculate" =>
          RecordCount(file)
              + Cardinality({g \in Handlers : frames[g].fn = "calculate"}) < MaxCalcs
    /\ Becomes(lists, prices_state, num_inputs,
               [frames EXCEPT ![h] =
                   [IdleFrame EXCEPT
                       !.pc = "called", !.fn = ev.fn, !.idx = ev.idx, !.x = ev.x,
                       !.prices = IF ev.fn = "reset_all" THEN NoList ELSE prices_state,
                       !.num_inputs = IF ev.fn \in {"handle_add", "handle_remove"}
                                      THEN num_inputs ELSE 0,
                       !.nth = IF Quiescent THEN 1
                               ELSE 1 + The({frames[g].nth : g \in
                                                {k \in Handlers : frames[k].pc # "idle"}})]])
    /\ UNCHANGED <<seq_vars, unit_vars, conc_vars>>

\* handle_add, lines 234-236: prices.append(None) on the list the handler
\* was given, as it is by now
add_append(h) ==
    /\ frames[h].pc = "called"
    /\ frames[h].fn = "handle_add"
    /\ IF frames[h].num_inputs < MaxInputs
       THEN Becomes([lists EXCEPT ![frames[h].prices] = Append(@, EmptyInput)],
                    prices_state, num_inputs,
                    [frames EXCEPT ![h].pc = "render",
                                   ![h].num_inputs = frames[h].num_inputs + 1])
       ELSE Becomes(lists, prices_state, num_inputs, [frames EXCEPT ![h].pc = "render"])
    /\ UNCHANGED <<seq_vars, unit_vars, conc_vars>>

\* handle_remove, line 241: num_inputs > 1 and 0 <= idx < len(prices), with
\* the length the list has by now
remove_check(h) ==
    /\ frames[h].pc = "called"
    /\ frames[h].fn = "handle_remove"
    /\ Becomes(lists, prices_state, num_inputs,
               [frames EXCEPT ![h].pc =
                   IF /\ frames[h].num_inputs > 1
                      /\ 0 <= frames[h].idx
                      /\ frames[h].idx < Len(lists[frames[h].prices])
                   THEN "pop" ELSE "render"])
    /\ UNCHANGED <<seq_vars, unit_vars, conc_vars>>

\* handle_remove, lines 242-243: prices.pop(idx) on the list as it is by
\* now.  It raises IndexError when the list got too short since line 241,
\* and the handler ends with no output.  A handler that is in
\* update_ui_state with this list may have found i < len(prices) (line 96)
\* for the entry that is now gone: its prices[i] can raise
remove_pop(h) ==
    /\ frames[h].pc = "pop"
    /\ IF frames[h].idx < Len(lists[frames[h].prices])
       THEN Becomes([lists EXCEPT ![frames[h].prices] = Pop(@, frames[h].idx)],
                    prices_state, num_inputs,
                    [g \in Handlers |->
                        IF g = h
                        THEN [frames[h] EXCEPT !.pc = "render",
                                               !.num_inputs = frames[h].num_inputs - 1]
                        ELSE IF /\ frames[g].pc = "render"
                                /\ frames[g].prices = frames[h].prices
                                /\ Len(lists[frames[h].prices]) - 1 < frames[g].num_inputs
                             THEN [frames[g] EXCEPT !.hit = TRUE]
                             ELSE frames[g]])
       ELSE Becomes(lists, prices_state, num_inputs, [frames EXCEPT ![h] = IdleFrame])
    /\ UNCHANGED <<seq_vars, unit_vars, conc_vars>>

\* the change handler, line 272: idx < len(p), with the length the list has
\* by now
change_check(h) ==
    /\ frames[h].pc = "called"
    /\ frames[h].fn = "number_change"
    /\ Becomes(lists, prices_state, num_inputs,
               [frames EXCEPT ![h].pc =
                   IF frames[h].idx < Len(lists[frames[h].prices])
                   THEN "slice" ELSE "return"])
    /\ UNCHANGED <<seq_vars, unit_vars, conc_vars>>

\* the change handler, line 272: p[:idx] + [x] + p[idx+1:], a new list made
\* of the list as it is by now
change_slice(h) ==
    /\ frames[h].pc = "slice"
    /\ \E new \in {NewList(frames, prices_state, h)} :
          Becomes([lists EXCEPT ![new] = Changed(lists[frames[h].prices],
                                                  frames[h].idx, frames[h].x)],
                  prices_state, num_inputs,
                  [frames EXCEPT ![h].pc = "return", ![h].prices = new])
    /\ UNCHANGED <<seq_vars, unit_vars, conc_vars>>

\* reset_all, line 118: _save_result({'records': []}) opens result.json for
\* writing, which empties it (_save_result line 37)
reset_open(h) ==
    /\ frames[h].pc = "called"
    /\ frames[h].fn = "reset_all"
    /\ file' = EmptyFile
    /\ Becomes(lists, prices_state, num_inputs, [frames EXCEPT ![h].pc = "dump"])
    /\ UNCHANGED <<standard_price, configs, prices, picked, ret, err, pc,
                   unit_vars, conc_vars>>

\* reset_all, line 118: the text of the empty log is written from offset 0
\* (_save_result line 38)
reset_dump(h) ==
    /\ frames[h].pc = "dump"
    /\ file' = WriteOver(file, EmptyLog)
    /\ Becomes(lists, prices_state, num_inputs, [frames EXCEPT ![h].pc = "return"])
    /\ UNCHANGED <<standard_price, configs, prices, picked, ret, err, pc,
                   unit_vars, conc_vars>>

\* calculate, line 72: [p for p in prices if p is not None] reads the list
\* turn by turn, as it is by then.  A handler that runs alone on a list
\* longer than MaxOverlap stays alone, and takes its turns in one step.
\* After the last turn the handler goes on to return two empty tables (lines
\* 74-75) or calls calc (line 78), which runs up to its load of the log
\* (lines 178-235)
calculate_next(h) ==
    /\ frames[h].pc = "called"
    /\ frames[h].fn = "calculate"
    /\ IF /\ frames[h].i < Len(lists[frames[h].prices])
          /\ InWindow \/ \E g \in Handlers \ {h} : frames[g].pc # "idle"
       THEN /\ Becomes(lists, prices_state, num_inputs,
                       [frames EXCEPT
                           ![h].i = frames[h].i + 1,
                           ![h].valid_prices =
                               IF lists[frames[h].prices][frames[h].i + 1] # EmptyInput
                               THEN Append(@, lists[frames[h].prices][frames[h].i + 1])
                               ELSE @])
            /\ UNCHANGED conc_vars
       ELSE \E valid_prices \in
                  {frames[h].valid_prices
                       \o SelectSeq(SubSeq(lists[frames[h].prices], frames[h].i + 1,
                                           Len(lists[frames[h].prices])),
                                    LAMBDA p : p # EmptyInput)} :
               IF valid_prices = <<>>
               THEN /\ Becomes(lists, prices_state, num_inputs,
                               [frames EXCEPT ![h].pc = "return", ![h].prices = NoList,
                                              ![h].valid_prices = <<>>])
                    /\ UNCHANGED conc_vars
               ELSE /\ Becomes(lists, prices_state, num_inputs,
                               [frames EXCEPT ![h].pc = "calc", ![h].prices = NoList,
                                              ![h].valid_prices = valid_prices])
                    /\ Build(h, valid_prices, UITimestamps)
                    /\ UNCHANGED <<t_result, t_ret, t_read, r_pc>>
    /\ UNCHANGED <<seq_vars, unit_vars>>

\* calculate, lines 79-81: calc returned and the record is shown, or calc
\* raised and the exception is caught and shown
calculate_return(h) ==
    /\ frames[h].pc = "calc"
    /\ t_pc[h] \in {"done", "raised"}
    /\ t_pc' = [t_pc EXCEPT ![h] = "idle"]
    /\ t_record' = [t_record EXCEPT ![h] = NoRecord]
    /\ t_result' = [t_result EXCEPT ![h] = EmptyLog]
    /\ t_ret' = [t_ret EXCEPT ![h] = NoRecord]
    /\ t_err' = [t_err EXCEPT ![h] = NoError]
    /\ Becomes(lists, prices_state, num_inputs, [frames EXCEPT ![h] = IdleFrame])
    /\ UNCHANGED <<seq_vars, unit_vars, t_read, r_pc>>

\* the return of a handler: Gradio stores the outputs in the session.
\* handle_add and handle_remove return the list they were given and their
\* num_inputs, after update_ui_state (lines 237, 244); the change handler
\* returns its list (outputs=[prices_state], line 274); reset_all returns a
\* new [None] and 1 (lines 129-130); calculate returns tables only
Return(h) ==
    /\ frames[h].pc \in {"render", "return"}
    /\ CASE frames[h].fn \in {"handle_add", "handle_remove"} ->
                Becomes(lists, frames[h].prices, frames[h].num_inputs,
                        [frames EXCEPT ![h] = IdleFrame])
         [] frames[h].fn = "number_change" ->
                Becomes(lists, frames[h].prices, num_inputs,
                        [frames EXCEPT ![h] = IdleFrame])
         [] frames[h].fn = "reset_all" ->
                \E new \in {NewList(frames, prices_state, h)} :
                    Becomes([lists EXCEPT ![new] = <<EmptyInput>>], new, 1,
                            [frames EXCEPT ![h] = IdleFrame])
         [] frames[h].fn = "calculate" ->
                Becomes(lists, prices_state, num_inputs, [frames EXCEPT ![h] = IdleFrame])
    /\ UNCHANGED <<seq_vars, unit_vars, conc_vars>>

\* update_ui_state, line 96: prices[i] raises IndexError for an entry that a
\* pop of another handler took away after i < len(prices) was found; the
\* handler ends with no output, and what it did to the list stays
Raise(h) ==
    /\ frames[h].pc = "render"
    /\ frames[h].hit
    /\ Becomes(lists, prices_state, num_inputs, [frames EXCEPT ![h] = IdleFrame])
    /\ UNCHANGED <<seq_vars, unit_vars, conc_vars>>

\* between 1 and MaxInputs inputs, and prices_state holds one value for each
InputsInRange ==
    /\ num_inputs >= 1
    /\ num_inputs <= MaxInputs
    /\ Len(ui_prices) = num_inputs

\* a session is followed, from event to event, as long as InputsInRange
\* holds whenever no handler runs
Followed == Quiescent => InputsInRange

\* the events of the front end (create_ui, lines 254-306): an event handled
\* with no other handler beside it, the start of a handler, or a step of a
\* running handler.  No event is bound to add_price_input and
\* remove_price_input, and nothing calls them
NextUI ==
    \/ Followed /\ page_load
    \/ Followed /\ handle_add
    \/ Followed /\ \E idx \in 0..(NumRows - 1) : handle_remove(idx)
    \/ Followed /\ \E idx \in 0..(NumRows - 1), x \in UIValues : number_change(idx, x)
    \/ \E h \in Handlers :
          \/ Followed /\ \E ev \in OverlapEvents : Start(h, ev)
          \/ add_append(h)
          \/ remove_check(h)
          \/ remove_pop(h)
          \/ change_check(h)
          \/ change_slice(h)
          \/ reset_open(h)
          \/ reset_dump(h)
          \/ calculate_next(h)
          \/ StatStep(h)
          \/ ReadStep(h)
          \/ AppendStep(h)
          \/ OpenStep(h)
          \/ DumpStep(h)
          \/ ReturnStep(h)
          \/ calculate_return(h)
          \/ Return(h)
          \/ Raise(h)

SpecUI == InitUI /\ [][NextUI]_vars

-----------------------------------------------------------------------------
(* SpecMethods: add_price_input and remove_price_input, the public methods  *)
(* of PriceCalculatorUI that no event is bound to and nothing calls,        *)
(* called on their own                                                      *)

\* the lists, indices and counts the methods are called with
MethodLists == SeqsUpTo(UIValues, MaxOverlap)

MethodArgs ==
    {<<p, idx, n>> : p \in MethodLists, idx \in (0 - 1)..MaxOverlap,
                     n \in {0, 1, MaxOverlap, MaxInputs}}

InitMethods ==
    /\ standard_price = DefaultStandardPrice
    /\ configs = <<>>
    /\ file = _save_result(EmptyLog)
    /\ prices = <<>>
    /\ picked = <<>>
    /\ ret = NoRecord
    /\ err = NoError
    /\ pc = "ready"
    /\ unit_fn \in {"add_price_input", "remove_price_input"}
    /\ unit_arg \in MethodArgs
    /\ unit_out = <<>>
    /\ IdleConc
    /\ IdleUI

ApplyAddPriceInput ==
    /\ unit_fn = "add_price_input"
    /\ unit_out = <<>>
    /\ unit_out' = <<add_price_input(unit_arg[1], unit_arg[3])>>
    /\ UNCHANGED <<seq_vars, unit_fn, unit_arg, ui_vars, conc_vars>>

ApplyRemovePriceInput ==
    /\ unit_fn = "remove_price_input"
    /\ unit_out = <<>>
    /\ unit_out' = <<remove_price_input(unit_arg[1], unit_arg[2], unit_arg[3])>>
    /\ UNCHANGED <<seq_vars, unit_fn, unit_arg, ui_vars, conc_vars>>

NextMethods == ApplyAddPriceInput \/ ApplyRemovePriceInput

SpecMethods == InitMethods /\ [][NextMethods]_vars

-----------------------------------------------------------------------------
(* Properties *)

Records == _load_result(file).records

Returned == pc = "calc" /\ err = NoError

ValidPrice(p) == p.isnum /\ p.val >= 0

ValidList(price_list) ==
    price_list # <<>> /\ \A i \in DOMAIN price_list : ValidPrice(price_list[i])

ArithmeticErrors == {"DivisionByZero", "InvalidOperation"}

\* C1: a calc call that raises, for whatever reason (validation, no
\* configuration, a zero benchmark price on any item), leaves the record
\* sequence of the result log exactly as it was and returns no record.
C1_FailedCalcLeavesLog ==
    [][(pc' = "calc" /\ err' # NoError) =>
            (_load_result(file').records = Records /\ file' = file /\ ret' = NoRecord)]_vars

\* C1 witness: a batch of two whose first item was scored and whose last item
\* met a zero benchmark price, on a log that already held a record
C1_Witness ==
    /\ pc = "calc"
    /\ err.cls \in ArithmeticErrors
    /\ standard_price # 0
    /\ Len(prices) = 2
    /\ Len(picked) = 2
    /\ Len(Records) = 1

\* the input positions in the order a record lists their items: a bijection
\* that pairs every item with a price of its value and the config drawn for it
Pairings(items) ==
    {f \in [DOMAIN items -> DOMAIN prices] :
        /\ \A i, j \in DOMAIN items : i # j => f[i] # f[j]
        /\ \A i \in DOMAIN items :
              /\ items[i].price = prices[f[i]].val
              /\ items[i].config_name = configs[picked[f[i]]].name}

\* C2: the items of a returned record are ordered by score non-increasing,
\* and items of equal score keep the relative order their prices had in the
\* input list.
C2_SortedStable ==
    Returned =>
        /\ \A i \in 1..(Len(ret.items) - 1) : ret.items[i].score >= ret.items[i + 1].score
        /\ Len(ret.items) = Len(prices)
        /\ \E f \in Pairings(ret.items) :
              \A i, j \in DOMAIN ret.items :
                  (i < j /\ ret.items[i].score = ret.items[j].score) => f[i] < f[j]

\* C2 witness: a record of three items, the last two tied on score with
\* different prices, behind an item of higher score
C2_Witness ==
    /\ Returned
    /\ Len(ret.items) = 3
    /\ ret.items[1].score > ret.items[2].score
    /\ ret.items[2].score = ret.items[3].score
    /\ ret.items[2].price # ret.items[3].price

\* C3: every item of every record calc produces has 0 <= score <= 100,
\* whatever the configuration (weight_b or float_c3 out of range, a negative
\* benchmark price) and the non-zero benchmark price.
C3_ScoreRange ==
    /\ \A i \in DOMAIN ret.items :
          ret.items[i].score >= 0 /\ ret.items[i].score <= 10000
    /\ \A k \in DOMAIN Records : \A i \in DOMAIN Records[k].items :
          Records[k].items[i].score >= 0 /\ Records[k].items[i].score <= 10000

\* C3 witness: a record holding an item scored against a negative benchmark
\* price (config C: weight_b 1.5, float_c3 -2.0) and an item scored 100 - x, x > 0
C3_Witness ==
    /\ Returned
    /\ \E i \in DOMAIN ret.items :
          ret.items[i].benchmark_price < 0 /\ ret.items[i].config_name = "C"
    /\ \E i \in DOMAIN ret.items :
          ret.items[i].score > 0 /\ ret.items[i].score < 10000

\* C4: for a non-empty list of non-negative prices and a non-empty config
\* list, a calc that returns gives a record with as many items as prices.
C4_ItemCount ==
    (Returned /\ ValidList(prices) /\ configs # <<>>) => Len(ret.items) = Len(prices)

\* C4 witness: a returned record for a list of MaxLen prices
C4_Witness ==
    Returned /\ configs # <<>> /\ Len(prices) = MaxLen /\ Len(ret.items) = MaxLen

\* C5: calc raises a validation error exactly when the price list is empty
\* or holds a non-numeric or negative element, wherever that element is; no
\* item is then scored (no config is drawn) and no record returned.
C5_ValidationExactly ==
    pc = "calc" =>
        /\ (err \in {EmptyListError, InvalidPriceError}) <=> ~ValidList(prices)
        /\ (err = EmptyListError) <=> (prices = <<>>)
        /\ ~ValidList(prices) => (ret = NoRecord /\ picked = <<>>)

\* C5 witness: only the last element of the list is invalid
C5_Witness ==
    /\ pc = "calc"
    /\ err = InvalidPriceError
    /\ Len(prices) = MaxLen
    /\ \A i \in 1..(MaxLen - 1) : ValidPrice(prices[i])
    /\ ~ValidPrice(prices[MaxLen])
    /\ configs # <<>>

\* C6: with an empty configuration list, calc on a valid price list raises a
\* configuration error classified distinctly from a validation error, returns
\* no record, and raises before any per-item arithmetic (with standard_price
\* 0 the float rate of the first item would raise an arithmetic error).
C6_ConfigErrorDistinct ==
    (pc = "calc" /\ configs = <<>> /\ ValidList(prices)) =>
        /\ err # NoError
        /\ err.cls \notin ArithmeticErrors
        /\ ret = NoRecord
        /\ picked = <<>>
        /\ err.cls \notin {EmptyListError.cls, InvalidPriceError.cls}

\* the part of C6 the code keeps: the call raises the no-config ValueError,
\* before any arithmetic, and returns nothing; only the message tells it
\* from a validation error
C6_RaisedBeforeArithmetic ==
    (pc = "calc" /\ configs = <<>> /\ ValidList(prices)) =>
        /\ err = NoConfigError
        /\ err \notin {EmptyListError, InvalidPriceError}
        /\ ret = NoRecord
        /\ picked = <<>>

\* C7: under sequential use the log changes only by appending one whole
\* record or by being cleared: a calc that returns leaves a log that loads
\* as the earlier records, unchanged and in their order, followed by exactly
\* the returned record; a reset leaves a log that loads as no record,
\* whatever it held; and nothing else changes the file.
C7_AppendOrClear ==
    [][/\ (pc' = "calc" /\ err' = NoError) =>
              (Parses(file') /\ _load_result(file').records = Append(Records, ret'))
       /\ (pc' = "reset") =>
              (Parses(file') /\ _load_result(file').records = <<>>)
       /\ (file' # file) =>
              \/ pc' = "calc" /\ err' = NoError
              \/ pc' \in {"reset_open", "reset"}]_vars

\* C7 witness: the log holds three records, no two of them equal, the third
\* one the record the last call returned; the first holds floats that are
\* -0.0 and a float price
C7_Witness ==
    /\ Returned
    /\ Len(Records) = 3
    /\ Records[3] = ret
    /\ Records[1] # Records[2]
    /\ Records[2] # Records[3]
    /\ Records[1] # Records[3]
    /\ \E i \in DOMAIN Records[1].items :
          /\ Records[1].items[i].kinds.final_float_a = "-0.0"
          /\ Records[1].items[i].kinds.price = "-0.0"
    /\ \E i \in DOMAIN Records[1].items : Records[1].items[i].kinds.price = "float"

\* x is a / b rounded to the nearest integer, a tie going away from zero
NearestHalfAway(x, a, b) ==
    /\ 2 * Abs(x * b - a) <= Abs(b)
    /\ 2 * Abs(x * b - a) = Abs(b) => Abs(x * b) > Abs(a)

\* C8: standard_price 5385, the single configuration {0.05, 0.6, 0.02} and
\* the single price 5200 give bid_float_rate -0.0344, final_float_a 0.0500,
\* avg_price 5200.00, benchmark_price 5228.70 and score 99.45; every value is
\* rounded half away from zero at its own precision and the next step
\* consumes the rounded value.
C8_WorkedExample ==
    /\ (pc = "calc" /\ standard_price = 5385 /\ configs = <<ConfigA>>
            /\ prices = <<Num(5200)>>) =>
          /\ err = NoError
          /\ ret.avg_price = 520000
          /\ ret.items = <<[price           |-> 5200,
                            bid_float_rate  |-> -344,
                            config_name     |-> "A",
                            final_float_a   |-> 500,
                            benchmark_price |-> 522870,
                            score           |-> 9945,
                            kinds           |-> [price          |-> "int",
                                                 bid_float_rate |-> "float",
                                                 final_float_a  |-> "float",
                                                 score          |-> "float"]]>>
    /\ Returned =>
          /\ NearestHalfAway(ret.avg_price, 100 * Sum([i \in DOMAIN prices |-> prices[i].val]),
                             Len(prices))
          /\ \A i \in DOMAIN ret.items :
                LET item   == ret.items[i]
                    config == The({c \in {configs[k] : k \in DOMAIN configs} :
                                        c.name = item.config_name})
                IN  /\ NearestHalfAway(item.bid_float_rate,
                                       10000 * (item.price - standard_price), standard_price)
                    /\ NearestHalfAway(item.benchmark_price,
                                       ret.avg_price * (100 + config.float_c3) * config.weight_b
                                         + standard_price * (10000 - item.final_float_a)
                                             * (10 - config.weight_b),
                                       1000)

\* C8 witness: the call of the worked example has returned
C8_Witness ==
    /\ Returned
    /\ standard_price = 5385
    /\ configs = <<ConfigA>>
    /\ prices = <<Num(5200)>>
    /\ ret.items[1].score = 9945

\* the amount the tier of bid_float_rate takes off float_a, in 1/100000
TierCut(rate) == IF rate <= 800 THEN 0 ELSE IF rate <= 1500 THEN 2500 ELSE 5000

\* C9 as stated: the final parameter is float_a, float_a - 0.025 or
\* float_a - 0.05 exactly, by the tier of bid_float_rate.
C9_ExactTiers ==
    unit_out # <<>> => unit_out[1] * 10 = unit_arg[2] - TierCut(unit_arg[1])

\* C9 as amended: the final parameter is float_a, float_a - 0.025 or
\* float_a - 0.05 by the tier of bid_float_rate (r <= 0.08, 0.08 < r <= 0.15,
\* r > 0.15; 0.08 itself in the first tier, 0.15 itself in the second),
\* rounded half away from zero to four fractional digits.
C9_RoundedTiers ==
    unit_out # <<>> =>
        NearestHalfAway(unit_out[1], unit_arg[2] - TierCut(unit_arg[1]), 10)

\* C9 witness: bid_float_rate exactly 0.08 with float_a 0.12345 gave 0.1235
C9_Witness ==
    unit_out = <<1235>> /\ unit_arg = <<800, 12345>>

\* every thread's calc has returned its record
BothReturned == \A t \in Threads : t_pc[t] = "done"

\* both threads loaded the log before either wrote it: the logs they loaded
\* (and appended to) have the same length
BothLoadedFirst == \A t, u \in Threads : Len(t_result[t].records) = Len(t_result[u].records)

\* the two calc calls were the only writers of the log
NoReset == r_pc = "idle"

\* C10: when two calc calls, the only writers of the log, both load it
\* before either writes it and both return their record, the log never
\* holds both records.  The file
\* starts with the document of the call w that wrote last; it is either that
\* document alone, the log w loaded plus w's record, the other record lost,
\* or (w's text being the shorter, and written after the other call wrote
\* between w's opening of the file and w's write) that document followed by
\* the tail of the other text, which does not load.
C10_LostUpdate ==
    (BothReturned /\ BothLoadedFirst /\ NoReset) =>
        \E w \in Threads :
            /\ file # EmptyFile
            /\ <<file[1]>> = _save_result(t_result[w])
            /\ Parses(file) =>
                  /\ Records = t_result[w].records
                  /\ Records[Len(Records)] = t_ret[w]
                  /\ \A t \in Threads : Len(Records) = Len(t_result[t].records)
            /\ ~Parses(file) =>
                  \E o \in Threads \ {w} :
                      /\ TextLen(t_result[w]) < TextLen(t_result[o])
                      /\ Len(file) = 2
                      /\ file[2] = <<"extra data", _save_result(t_result[o]),
                                     TextLen(t_result[w]), TextLen(t_result[o])>>

\* C10 witness: both calls loaded first and returned, the records differ,
\* and the log holds the record of thread 2 but not the record of thread 1
C10_Witness ==
    /\ BothReturned
    /\ BothLoadedFirst
    /\ NoReset
    /\ Parses(file)
    /\ t_ret[1] # t_ret[2]
    /\ \E k \in DOMAIN Records : Records[k] = t_ret[2]
    /\ \A k \in DOMAIN Records : Records[k] # t_ret[1]

\* weight_b in [0, 1], float_c3 >= 0, float_a in [0, 1)
NormalRange(config) ==
    /\ config.weight_b >= 0 /\ config.weight_b <= 10
    /\ config.float_c3 >= 0
    /\ config.float_a >= 0 /\ config.float_a < 100000

NormalCall ==
    /\ pc = "calc"
    /\ standard_price > 0
    /\ ValidList(prices)
    /\ \A k \in DOMAIN configs : NormalRange(configs[k])

\* avg_price (1 + float_c3) weight_b + standard_price (1 - final_float_a)
\* (1 - weight_b) for the i-th price of the last call, before it is rounded,
\* in units of 1/100000
BenchmarkSum(i) ==
    LET config == configs[picked[i]]
        avg    == _calculate_average([k \in DOMAIN prices |-> prices[k].val])
        final  == _calculate_final_float_a(
                      _calculate_float_rate(prices[i].val, standard_price), config.float_a)
    IN  avg * (100 + config.float_c3) * config.weight_b
            + standard_price * (10000 - final) * (10 - config.weight_b)

\* C11 as claimed: with a positive standard price, configurations in their
\* normal ranges and a valid price list, no item meets a zero benchmark
\* price: calc raises no arithmetic error.
C11_NeverZero ==
    NormalCall => err.cls \notin ArithmeticErrors

\* C11 as amended: under the same conditions the benchmark price of an item
\* is never negative, and it is non-zero exactly when the sum it rounds is at
\* least 0.005; calc returns a record (of non-zero benchmark prices) exactly
\* when that is so for every item, and raises an arithmetic error at the
\* first item for which it is not.
C11_ZeroBelowHalfCent ==
    NormalCall =>
        /\ err.cls \in ArithmeticErrors \cup {"None"}
        /\ \A i \in DOMAIN picked : BenchmarkSum(i) >= 0
        /\ err = NoError <=>
               (Len(picked) = Len(prices) /\ \A i \in DOMAIN picked : BenchmarkSum(i) >= 500)
        /\ err # NoError =>
               (BenchmarkSum(Len(picked)) < 500
                    /\ \A i \in 1..(Len(picked) - 1) : BenchmarkSum(i) >= 500)
        /\ \A i \in DOMAIN ret.items : ret.items[i].benchmark_price > 0

\* C11 witness: in the normal ranges, the second item of a batch met a zero
\* benchmark price (weight_b = 1, average price 0) after the first was scored
C11_Witness ==
    /\ NormalCall
    /\ err.cls \in ArithmeticErrors
    /\ Len(picked) = 2
    /\ configs[picked[2]].weight_b = 10
    /\ BenchmarkSum(2) = 0

\* _calculate_score returned for the price and benchmark price of unit_arg
Scored == unit_fn = "_calculate_score" /\ unit_out # <<>>

\* max(x, 0)
AtLeastZero(x) == IF x < 0 THEN 0 ELSE x

\* the score the claimed formula gives for a deviation (1/10000), in 1/100;
\* 100 - 200 d and 100 - 100 |d| have at most two fractional digits, so
\* rounding them to two digits changes nothing
ClaimedScore(d) ==
    IF d > 0 THEN AtLeastZero(10000 - 2 * d) ELSE AtLeastZero(10000 - Abs(d))

\* C12: for a price and a non-zero benchmark price, with deviation the
\* quotient (price - benchmark) / benchmark rounded half away from zero to
\* four digits, the score is max(100 - 200 deviation, 0) for deviation > 0
\* and max(100 - 100 |deviation|, 0) otherwise; a price equal to its benchmark
\* scores 100, and a price above the benchmark loses twice what a price of
\* the opposite deviation loses, as long as neither score is floored at 0.
C12_ScoreFormula ==
    Scored =>
        LET price     == unit_arg[1]
            benchmark == unit_arg[2]
            score     == unit_out[1]
        IN  /\ benchmark # 0
            /\ \E d \in {DeviationRate(price, benchmark)} :
                  /\ NearestHalfAway(d, (price * 100 - benchmark) * 10000, benchmark)
                  /\ score = ClaimedScore(d)
            /\ price * 100 = benchmark => score = 10000
            /\ \A below \in {a[1] : a \in {b \in ScoreArgs : b[2] = benchmark}} :
                  (/\ DeviationRate(price, benchmark) > 0
                   /\ DeviationRate(below, benchmark) = -DeviationRate(price, benchmark)
                   /\ score > 0)
                      => 10000 - score = 2 * (10000 - _calculate_score(below, benchmark))

\* C12 witness: 110 against the benchmark 100.00 scored 80.00 (90 scores
\* 90.00)
C12_Witness ==
    /\ Scored
    /\ unit_arg = <<110, 10000>>
    /\ unit_out = <<8000>>
    /\ _calculate_score(90, 10000) = 9000

\* the benchmark price calc computes for the i-th price of the last call
\* (standard_price # 0), with the configuration drawn for it
BenchmarkOf(i) ==
    LET config == configs[picked[i]]
        avg    == _calculate_average([k \in DOMAIN prices |-> prices[k].val])
        final  == _calculate_final_float_a(
                      _calculate_float_rate(prices[i].val, standard_price), config.float_a)
    IN  _calculate_benchmark_price(avg, config, final, standard_price)

\* the last call reached the score of its i-th price with a benchmark price
\* of zero
ZeroBenchmarkAt(i) ==
    /\ pc = "calc"
    /\ standard_price # 0
    /\ i \in DOMAIN picked
    /\ BenchmarkOf(i) = 0

\* C13 as claimed: an item whose benchmark price is 0 makes calc fail with a
\* division-by-zero error, whatever the price (0 included), and return no
\* record.
C13_DivisionByZeroClass ==
    \A i \in DOMAIN prices :
        ZeroBenchmarkAt(i) => (err.cls = "DivisionByZero" /\ ret = NoRecord)

\* C13 as amended: an item whose benchmark price is 0 ends the call at that
\* item with an arithmetic error, DivisionByZero for a non-zero price and
\* InvalidOperation (division undefined) for the price 0; calc returns no
\* record and writes none, and no record ever holds an item with benchmark
\* price 0.
C13_ZeroBenchmarkRaises ==
    /\ \A i \in DOMAIN prices :
          ZeroBenchmarkAt(i) =>
              /\ i = Len(picked)
              /\ err.cls \in ArithmeticErrors
              /\ err.cls = IF prices[i].val = 0 THEN "InvalidOperation" ELSE "DivisionByZero"
              /\ ret = NoRecord
    /\ \A i \in DOMAIN ret.items : ret.items[i].benchmark_price # 0
    /\ \A k \in DOMAIN Records : \A i \in DOMAIN Records[k].items :
          Records[k].items[i].benchmark_price # 0

\* C13 witness: the price 0 met a benchmark price of 0 (0 / 0) as the second
\* item of a batch, and the call raised InvalidOperation
C13_Witness ==
    /\ ZeroBenchmarkAt(2)
    /\ prices[2].val = 0
    /\ err.cls = "InvalidOperation"
    /\ ret = NoRecord

\* C14: in the web front end, after any add, remove(idx), value-change(idx)
\* and reset events, once their handlers have returned,
\* 1 <= num_inputs <= 50 and len(prices) = num_inputs.
C14_InputsInvariant == Quiescent => InputsInRange

\* the part of C14 that holds: an add, remove or change event handled with
\* no other handler beside it, in a state with 1 <= num_inputs <= 50 and
\* len(prices) = num_inputs, ends in such a state
C14_OneAtATime ==
    [][(Quiescent /\ InputsInRange /\ Quiescent' /\ ~page_load)
           => InputsInRange']_vars

=============================================================================
